---- MODULE Spec2Model ----
(***************************************************************************)
(* Verification model of the analytics query/aggregation engine:           *)
(*   - ClickHousePool            (src/src/lib/clickhouse.ts)               *)
(*   - the aggregation job       (src/src/scripts/aggregate-stats.ts)      *)
(*   - getPageviewStats router   (src/src/queries/analytics/pageviews/)    *)
(*   - resetWebsite, deleteWebsite (src/src/queries/prisma/website.ts)     *)
(*   - the send handler          (src/src/pages/api/send.ts)               *)
(*   - setupGracefulShutdown     (src/src/lib/clickhouse.ts, lines 378 on) *)
(* The specifications share the variables: SpecPool, SpecPoolFair and      *)
(* SpecShutdown drive the connection pool, SpecJob and SpecRuns the stores *)
(* and the job, SpecData also resets and queries, SpecFilters the filter   *)
(* translation, SpecCollect the collector, SpecDelete the deletion of      *)
(* websites and SpecProcess the server process from load to exit.          *)
(***************************************************************************)
EXTENDS Integers, Sequences, FiniteSets, TLC

VARIABLES
    \* ---- ClickHousePool ----
    config,          \* PoolConfig: min, max, acquireTimeoutMillis, idleTimeoutMillis
    clients,         \* this.clients: the array of pooled clients, in push order
    isIdle,          \* client.isIdle, per client object
    lastUsed,        \* client.lastUsed, per client object
    closed,          \* whether client.close() was called on the object
    initPc,          \* position of initialize(): "awaiting" | "done" | "failed"
    initI,           \* loop variable i of initialize()
    reaperStarted,   \* whether startReaper() has installed the interval
    cpc,             \* per caller: position inside acquire() / its operation
    cref,            \* per caller: the client its acquire() works with / returned
    waitStart,       \* per caller: Date.now() when the acquire timeout was armed
    cop,             \* per caller: the exported operation that called acquire()
    shutdown,        \* end(): how many calls were made and how many have completed
    pnow,            \* Date.now() as seen by the pool
    \* ---- stores, aggregation job, router ----
    now,             \* new Date() as seen by the job, the collector and reset
    website,         \* website registry: per website resetAt (empty set: null)
    session,         \* set of session rows
    websiteEvent,    \* set of website_event rows
    websiteStats,    \* set of website_stats rows (rollups)
    hourly,          \* rows of website_event_stats_hourly
    nextEventId,     \* number of events ingested so far
    job,             \* the running aggregation job process (main)
    query,           \* the last getPageviewStats call and its result
    \* ---- filter translation ----
    translated,      \* the last parseFilters call and what it returned
    \* ---- collector: visits ----
    token,           \* per session: the token the last response gave the client
    eventVisit,      \* visit_id of every stored event, by event id
    \* ---- the server process: module load, graceful shutdown ----
    process,         \* configuration, position and exit of the server process
    \* ---- website registry: deletion ----
    deleted          \* per website: how the last deleteWebsite call ended

poolVars == <<config, clients, isIdle, lastUsed, closed, initPc, initI,
              reaperStarted, cpc, cref, waitStart, cop, shutdown, pnow>>
dataVars == <<now, website, session, websiteEvent, hourly, websiteStats, nextEventId,
              job, query>>
filterVars == <<translated>>
collectVars == <<token, eventVisit>>
processVars == <<process>>
registryVars == <<deleted>>
vars == <<poolVars, dataVars, filterVars, collectVars, processVars, registryVars>>

(***************************************************************************)
(* Bounds of the model.                                                    *)
(***************************************************************************)
MaxMin == 2            \* largest config.min tried
MaxMax == 2            \* largest config.max tried
MaxPoolTime == 3       \* largest value of the pool clock
NumCallers == 2        \* concurrent callers of acquire()
MaxEnds == 2           \* calls of end() in one behaviour

Callers == 1..NumCallers
\* The exported operations that take a client from the pool.
Operations == {"rawQuery", "insert", "connect"}
NoOperation == "none"
NoClient == 0
\* Enough object identities for every live reference: the array may overshoot
\* max during warm-up, and each caller may keep a removed client.
ClientIds == 1..(MaxMax + MaxMin + NumCallers)

Range(s) == {s[i] : i \in 1..Len(s)}

RECURSIVE SelectSeqIdx(_, _, _)
\* Array.prototype.filter: keeps the elements e for which Keep(e), in order.
SelectSeqIdx(s, keep, i) ==
    IF i > Len(s) THEN <<>>
    ELSE IF s[i] \in keep THEN <<s[i]>> \o SelectSeqIdx(s, keep, i + 1)
    ELSE SelectSeqIdx(s, keep, i + 1)

\* this.clients.find(c => c.isIdle): the first idle client of the array.
FindIdle ==
    IF \E i \in 1..Len(clients) : isIdle[clients[i]]
    THEN clients[CHOOSE i \in 1..Len(clients) :
                    /\ isIdle[clients[i]]
                    /\ \A j \in 1..(i - 1) : ~isIdle[clients[j]]]
    ELSE NoClient

\* A client object no variable refers to: the identity of the next object
\* createClient() allocates.
Referenced == Range(clients) \cup {cref[c] : c \in Callers}
FreshClient == CHOOSE id \in ClientIds : id \notin Referenced /\
                  \A other \in ClientIds : other \notin Referenced => id <= other

\* A client object that neither the array nor a caller refers to is
\* unreachable: its fields are forgotten (f holds a field of every object).
Scrub(f, default, live) ==
    [id \in ClientIds |-> IF id \in live THEN f[id] ELSE default]

\* Microtasks are pending while an `await this.createClient()` has not resumed.
\* Timer callbacks (the reaper, the poll, the acquire timeout) are macrotasks
\* and run only once the microtask queue is empty.
MicrotasksPending ==
    \/ initPc = "awaiting"
    \/ \E c \in Callers : cpc[c] = "created"

(***************************************************************************)
(* ClickHousePool                                                          *)
(***************************************************************************)

\* createClient(): allocates a client with lastUsed = now, isIdle = true and
\* pushes it on this.clients.
CreateClient(id) ==
    /\ clients' = Append(clients, id)
    /\ isIdle' = [isIdle EXCEPT ![id] = TRUE]
    /\ lastUsed' = [lastUsed EXCEPT ![id] = pnow]
    /\ closed' = [closed EXCEPT ![id] = FALSE]

\* initialize() resuming after `await this.createClient()`: i++, then either
\* the next createClient() or startReaper().
InitializeStep ==
    /\ initPc = "awaiting"
    /\ IF initI + 1 < config.min
       THEN /\ Referenced # ClientIds
            /\ CreateClient(FreshClient)
            /\ initI' = initI + 1
            /\ UNCHANGED <<initPc, reaperStarted>>
       ELSE /\ initI' = initI + 1
            /\ initPc' = "done"
            /\ reaperStarted' = TRUE
            /\ UNCHANGED <<clients, isIdle, lastUsed, closed>>
    /\ UNCHANGED <<config, cpc, cref, waitStart, pnow>>
    /\ UNCHANGED <<cop, shutdown>>
    /\ UNCHANGED <<dataVars, filterVars, collectVars, processVars, registryVars>>

\* One of the exported operations calling acquire(): from the call to the
\* first suspension of acquire() (or to its return when an idle client is found
\* at once).
AcquireCall(c) ==
    /\ cpc[c] = "none"
    /\ LET found == FindIdle IN
       IF found # NoClient
       THEN \* lines 127, 155-157: take the idle client
            /\ isIdle' = [isIdle EXCEPT ![found] = FALSE]
            /\ lastUsed' = [lastUsed EXCEPT ![found] = pnow]
            /\ cref' = [cref EXCEPT ![c] = found]
            /\ cpc' = [cpc EXCEPT ![c] = "holding"]
            /\ UNCHANGED <<clients, closed, waitStart>>
       ELSE IF Len(clients) < config.max
       THEN \* lines 130-131: createClient(), then suspend on the await
            /\ Referenced # ClientIds
            /\ CreateClient(FreshClient)
            /\ cref' = [cref EXCEPT ![c] = FreshClient]
            /\ cpc' = [cpc EXCEPT ![c] = "created"]
            /\ UNCHANGED waitStart
       ELSE \* lines 135-152: arm the timeout, first poll finds nothing
            /\ cpc' = [cpc EXCEPT ![c] = "waiting"]
            /\ waitStart' = [waitStart EXCEPT ![c] = pnow]
            /\ UNCHANGED <<clients, isIdle, lastUsed, closed, cref>>
    /\ \E op \in Operations : cop' = [cop EXCEPT ![c] = op]
    /\ UNCHANGED <<config, initPc, initI, reaperStarted, shutdown, pnow>>
    /\ UNCHANGED <<dataVars, filterVars, collectVars, processVars, registryVars>>

\* acquire() resuming after `await this.createClient()`: lines 155-157.
AcquireResume(c) ==
    /\ cpc[c] = "created"
    /\ isIdle' = [isIdle EXCEPT ![cref[c]] = FALSE]
    /\ lastUsed' = [lastUsed EXCEPT ![cref[c]] = pnow]
    /\ cpc' = [cpc EXCEPT ![c] = "holding"]
    /\ UNCHANGED <<config, clients, closed, initPc, initI, reaperStarted,
                   cref, waitStart, pnow>>
    /\ UNCHANGED <<cop, shutdown>>
    /\ UNCHANGED <<dataVars, filterVars, collectVars, processVars, registryVars>>

\* checkForIdleClient firing from its 100 ms timer and finding an idle client:
\* resolve(idleClient), and the continuation of acquire() (lines 155-157) runs
\* as the only microtask of that timer callback.
AcquirePoll(c) ==
    /\ cpc[c] = "waiting"
    /\ ~MicrotasksPending
    /\ FindIdle # NoClient
    /\ isIdle' = [isIdle EXCEPT ![FindIdle] = FALSE]
    /\ lastUsed' = [lastUsed EXCEPT ![FindIdle] = pnow]
    /\ cref' = [cref EXCEPT ![c] = FindIdle]
    /\ cpc' = [cpc EXCEPT ![c] = "holding"]
    /\ UNCHANGED <<config, clients, closed, initPc, initI, reaperStarted,
                   waitStart, pnow>>
    /\ UNCHANGED <<cop, shutdown>>
    /\ UNCHANGED <<dataVars, filterVars, collectVars, processVars, registryVars>>

\* A plausible slip: the timer fires but the promise is never rejected.
AcquireTimeoutNoReject(c) ==
    /\ cpc[c] = "waiting"
    /\ ~MicrotasksPending
    /\ pnow - waitStart[c] >= config.acquireTimeoutMillis
    /\ UNCHANGED vars

\* The acquire timeout firing: reject(new Error('Timeout acquiring client')).
AcquireTimeout(c) ==
    /\ cpc[c] = "waiting"
    /\ ~MicrotasksPending
    /\ pnow - waitStart[c] >= config.acquireTimeoutMillis
    /\ cpc' = [cpc EXCEPT ![c] = "timedOut"]
    /\ UNCHANGED <<config, clients, isIdle, lastUsed, closed, initPc, initI,
                   reaperStarted, cref, waitStart, pnow>>
    /\ UNCHANGED <<cop, shutdown>>
    /\ UNCHANGED <<dataVars, filterVars, collectVars, processVars, registryVars>>

\* release(client): lines 160-163.
release(id) ==
    /\ isIdle' = Scrub([isIdle EXCEPT ![id] = TRUE], FALSE, Referenced')
    /\ lastUsed' = Scrub([lastUsed EXCEPT ![id] = pnow], 0, Referenced')
    /\ closed' = Scrub(closed, FALSE, Referenced')

\* rawQuery / insert: the try block completes, the finally releases the client
\* and the operation returns.
Release(c) ==
    /\ cpc[c] = "holding"
    /\ cop[c] \in {"rawQuery", "insert"}
    /\ cref' = [cref EXCEPT ![c] = NoClient]
    /\ clients' = clients
    /\ release(cref[c])
    /\ cpc' = [cpc EXCEPT ![c] = "none"]
    /\ cop' = [cop EXCEPT ![c] = NoOperation]
    /\ UNCHANGED <<config, initPc, initI, reaperStarted,
                   waitStart, shutdown, pnow>>
    /\ UNCHANGED <<dataVars, filterVars, collectVars, processVars, registryVars>>

\* A plausible slip: release at the end of the try block instead of in a
\* finally, so that a rejection leaves the client busy.
OperationThrowsNoRelease(c) ==
    /\ cpc[c] = "holding"
    /\ cop[c] \in {"rawQuery", "insert"}
    /\ cpc' = [cpc EXCEPT ![c] = "threw"]
    /\ cref' = [cref EXCEPT ![c] = NoClient]
    /\ UNCHANGED <<config, clients, isIdle, lastUsed, closed, initPc, initI,
                   reaperStarted, waitStart, cop, shutdown, pnow>>
    /\ UNCHANGED <<dataVars, filterVars, collectVars, processVars, registryVars>>

\* rawQuery / insert: client.query, client.insert or resultSet.json rejects;
\* the finally releases the client and the operation rethrows.
OperationThrows(c) ==
    /\ cpc[c] = "holding"
    /\ cop[c] \in {"rawQuery", "insert"}
    /\ cref' = [cref EXCEPT ![c] = NoClient]
    /\ clients' = clients
    /\ release(cref[c])
    /\ cpc' = [cpc EXCEPT ![c] = "threw"]
    /\ UNCHANGED <<config, initPc, initI, reaperStarted,
                   waitStart, cop, shutdown, pnow>>
    /\ UNCHANGED <<dataVars, filterVars, collectVars, processVars, registryVars>>

\* connect(): returns the client of pool.acquire() to its caller and is done;
\* nothing in the operation releases it.
ConnectReturn(c) ==
    /\ cpc[c] = "holding"
    /\ cop[c] = "connect"
    /\ cpc' = [cpc EXCEPT ![c] = "retained"]
    /\ UNCHANGED <<config, clients, isIdle, lastUsed, closed, initPc, initI,
                   reaperStarted, cref, waitStart, cop, shutdown, pnow>>
    /\ UNCHANGED <<dataVars, filterVars, collectVars, processVars, registryVars>>

\* The caller whose operation was rejected (acquire timed out, or the
\* operation threw) handles the error and may call again.
CallerRetry(c) ==
    /\ cpc[c] \in {"timedOut", "threw"}
    /\ cpc' = [cpc EXCEPT ![c] = "none"]
    /\ cop' = [cop EXCEPT ![c] = NoOperation]
    /\ UNCHANGED <<config, clients, isIdle, lastUsed, closed, initPc, initI,
                   reaperStarted, cref, waitStart, shutdown, pnow>>
    /\ UNCHANGED <<dataVars, filterVars, collectVars, processVars, registryVars>>

\* end(), from the call to its await: close() is called on every client that
\* is in the array now.
EndCall ==
    /\ shutdown.calls < MaxEnds
    /\ closed' = [id \in ClientIds |-> closed[id] \/ id \in Range(clients)]
    /\ shutdown' = [shutdown EXCEPT !.calls = shutdown.calls + 1]
    /\ UNCHANGED <<config, clients, isIdle, lastUsed, initPc, initI,
                   reaperStarted, cpc, cref, waitStart, cop, pnow>>
    /\ UNCHANGED <<dataVars, filterVars, collectVars, processVars, registryVars>>

\* end() resuming after `await Promise.all(...)`: this.clients = [].
EndResume ==
    /\ shutdown.done < shutdown.calls
    /\ clients' = <<>>
    /\ cref' = cref
    /\ isIdle' = Scrub(isIdle, FALSE, Referenced')
    /\ lastUsed' = Scrub(lastUsed, 0, Referenced')
    /\ closed' = Scrub(closed, FALSE, Referenced')
    /\ shutdown' = [shutdown EXCEPT !.done = shutdown.done + 1]
    /\ UNCHANGED <<config, initPc, initI, reaperStarted, cpc, waitStart, cop, pnow>>
    /\ UNCHANGED <<dataVars, filterVars, collectVars, processVars, registryVars>>

\* The clients one pass of reapIdleConnections() closes: the filter callback
\* tests the age of lastUsed and this.clients.length, which is the length of
\* the array being filtered for the whole pass (this.clients is reassigned
\* only when filter returns).
ReapVictims ==
    {id \in Range(clients) :
        /\ pnow - lastUsed[id] > config.idleTimeoutMillis
        /\ Len(clients) > config.min}

\* reapIdleConnections(), one tick of the setInterval of startReaper().
ReapIdleConnections ==
    /\ reaperStarted
    /\ ~MicrotasksPending
    /\ clients' = SelectSeqIdx(clients, Range(clients) \ ReapVictims, 1)
    /\ cref' = cref
    /\ isIdle' = Scrub(isIdle, FALSE, Referenced')
    /\ lastUsed' = Scrub(lastUsed, 0, Referenced')
    /\ closed' = Scrub([id \in ClientIds |-> closed[id] \/ id \in ReapVictims],
                       FALSE, Referenced')
    /\ UNCHANGED <<config, initPc, initI, reaperStarted, cpc, waitStart, pnow>>
    /\ UNCHANGED <<cop, shutdown>>
    /\ UNCHANGED <<dataVars, filterVars, collectVars, processVars, registryVars>>

\* Time passing on the pool's clock.
PoolTick ==
    /\ pnow < MaxPoolTime
    /\ pnow' = pnow + 1
    /\ UNCHANGED <<config, clients, isIdle, lastUsed, closed, initPc, initI,
                   reaperStarted, cpc, cref, waitStart>>
    /\ UNCHANGED <<cop, shutdown>>
    /\ UNCHANGED <<dataVars, filterVars, collectVars, processVars, registryVars>>

PoolNext ==
    \/ InitializeStep
    \/ \E c \in Callers : AcquireCall(c)
    \/ \E c \in Callers : AcquireResume(c)
    \/ \E c \in Callers : AcquirePoll(c)
    \/ \E c \in Callers : AcquireTimeout(c)
    \/ \E c \in Callers : Release(c)
    \/ \E c \in Callers : OperationThrows(c)
    \/ \E c \in Callers : ConnectReturn(c)
    \/ \E c \in Callers : CallerRetry(c)
    \/ ReapIdleConnections
    \/ PoolTick


(***************************************************************************)
(* Time.  Instants are ticks since the epoch; an hour has TicksPerHour     *)
(* instants and a day HoursPerDay hours.  The last instant of a day stands *)
(* for 23:59:59.999, which is what endOfDay returns.                       *)
(***************************************************************************)
TicksPerHour == 2
HoursPerDay == 2
RETENTION_DAYS == 30
MaxIngestDay == 0      \* the early days 0..MaxIngestDay, of which the job later summarizes
MaxEvents == 2         \* events collected in one behaviour
MaxResets == 1         \* resetWebsite calls in one behaviour

TicksPerDay == TicksPerHour * HoursPerDay
\* The job's last observed day: its target then is day MaxIngestDay + 1.
MaxDay == RETENTION_DAYS + MaxIngestDay + 1
MaxNow == (MaxDay + 1) * TicksPerDay - 1

Day(t) == t \div TicksPerDay
\* date-fns startOfDay / endOfDay / subDays, and ClickHouse toStartOfHour.
startOfDay(t) == t - (t % TicksPerDay)
endOfDay(t) == startOfDay(t) + TicksPerDay - 1
subDays(t, n) == t - n * TicksPerDay
toStartOfHour(t) == t - (t % TicksPerHour)

\* The instants at which the model lets something happen: every instant of
\* the early days, then one instant on each day whose job run targets an early
\* day or the day after (the job reads only the day of `today`).
nextInstant(t) ==
    IF Day(t + 1) <= MaxIngestDay THEN t + 1
    ELSE IF Day(t) < RETENTION_DAYS THEN RETENTION_DAYS * TicksPerDay
    ELSE startOfDay(t) + TicksPerDay

(***************************************************************************)
(* Rows.                                                                   *)
(***************************************************************************)
Websites == {"w1", "w2"}
WebsiteOrder == <<"w1", "w2">>
SessionIds == {"s1", "s2", "s3"}
\* A session id is a hash over the website and the client, and the device is
\* derived from the same client: both are functions of the session id.
SessionWebsite(s) == IF s = "s3" THEN "w2" ELSE "w1"
SessionDevice(s) == IF s = "s1" THEN "Mobile" ELSE IF s = "s2" THEN "" ELSE "desktop"

\* The payloads the collector receives: type, url and referrer domain.
EventShapes ==
    { [eventType |-> "pageView",    urlPath |-> "/",  referrerDomain |-> ""],
      [eventType |-> "pageView",    urlPath |-> "/a", referrerDomain |-> "ref.com"],
      [eventType |-> "customEvent", urlPath |-> "/",  referrerDomain |-> "ref.com"] }

\* String.prototype.toLowerCase on the device strings that occur.
toLowerCase(d) == IF d = "Mobile" THEN "mobile" ELSE d

RECURSIVE SumOver(_, _)
\* sum of f[x] over the finite set S
SumOver(S, f) ==
    IF S = {} THEN 0
    ELSE LET x == CHOOSE y \in S : TRUE IN f[x] + SumOver(S \ {x}, f)

RECURSIVE SortedBy(_)
\* the instants of T in ascending order (order by ... asc)
SortedBy(T) ==
    IF T = {} THEN <<>>
    ELSE LET m == CHOOSE x \in T : \A y \in T : x <= y IN <<m>> \o SortedBy(T \ {m})

EventsOf(w) == {e \in websiteEvent : e.websiteId = w}
SessionsOf(w) == {s \in session : s.websiteId = w}

(***************************************************************************)
(* Collector, registry                                                     *)
(***************************************************************************)
NoQuery == [source |-> "none", path |-> "", websiteId |-> "", unit |-> "",
            startDate |-> 0, endDate |-> 0, filters |-> {}, series |-> <<>>]
Quiet == query = NoQuery

\* The hourly materialized view: a block of one inserted event is grouped by
\* (website, session, event type, hour) with views = sumIf(1, event_type = 1).
hourlyRow(e) ==
    [websiteId |-> e.websiteId, sessionId |-> e.sessionId,
     eventType |-> e.eventType, createdAt |-> toStartOfHour(e.createdAt),
     views |-> IF e.eventType = "pageView" THEN 1 ELSE 0, id |-> e.id]

\* One collect request of session s: the session row is created when the
\* client has none, then the event is saved with the current time.
saveEventRows(s, shape) ==
    /\ Quiet
    /\ nextEventId < MaxEvents
    /\ LET e == [id |-> nextEventId + 1, websiteId |-> SessionWebsite(s),
                 sessionId |-> s, createdAt |-> now,
                 eventType |-> shape.eventType, urlPath |-> shape.urlPath,
                 referrerDomain |-> shape.referrerDomain]
       IN /\ websiteEvent' = websiteEvent \cup {e}
          /\ hourly' = hourly \cup {hourlyRow(e)}
    /\ session' =
         IF \E r \in session : r.id = s THEN session
         ELSE session \cup {[id |-> s, websiteId |-> SessionWebsite(s),
                             createdAt |-> now, device |-> SessionDevice(s)]}
    /\ nextEventId' = nextEventId + 1
    /\ UNCHANGED <<now, website, websiteStats, job, query>>
    /\ UNCHANGED <<poolVars, filterVars, processVars, registryVars>>

\* A collect request whose visit id is not followed: the rows it stores.
saveEvent(s, shape) == saveEventRows(s, shape) /\ UNCHANGED collectVars

\* 1800 seconds, in ticks: a gap exceeds half an hour exactly when it exceeds
\* this many ticks.
VisitTimeout == TicksPerHour \div 2
\* Math.floor(new Date().getTime() / 1000): the first instant of the model lies
\* after the epoch, so that an iat of 0 stands for a missing iat.
iatNow == now + 1
NoVisit == <<"", 0>>
NoToken == [visitId |-> NoVisit, iat |-> 0]
\* lib/crypto uuid(session.id, visitSalt()): a hash of the session id and of a
\* salt that differs between the instants of two visits.
visitSalt == now
uuid(id, salt) == <<id, salt>>

\* lib/middleware useSession: the session of the token the client sends; a
\* client without token gets a session with a new visit id and no iat.
useSession(s) ==
    IF token[s] # NoToken THEN [id |-> s, visitId |-> token[s].visitId, iat |-> token[s].iat]
    ELSE [id |-> s, visitId |-> uuid(s, visitSalt), iat |-> 0]

\* A plausible slip: the visit expires at 30 minutes, not after.
visitIdExpiringAt(sess, iat) ==
    IF sess.iat # 0 /\ iat - sess.iat >= VisitTimeout
    THEN uuid(sess.id, visitSalt)
    ELSE sess.visitId

\* Lines 152-157: the visit id of the request, rotated after 30 minutes.
visitIdFor(sess, iat) ==
    IF sess.iat # 0 /\ iat - sess.iat > VisitTimeout
    THEN uuid(sess.id, visitSalt)
    ELSE sess.visitId

\* The send handler for an event of a client that returns the token of the
\* previous response: the visit id is settled, session.iat is set, the event
\* is saved with the session's fields and the response carries the new token.
sendEvent(s, shape) ==
    /\ saveEventRows(s, shape)
    /\ LET sess == useSession(s)
           visitId == visitIdFor(sess, iatNow)
       IN /\ eventVisit' = [eventVisit EXCEPT ![nextEventId + 1] = visitId]
          /\ token' = [token EXCEPT ![s] = [visitId |-> visitId, iat |-> iatNow]]

\* resetWebsite: one transaction deleting the website's events and sessions
\* and stamping resetAt (event data and session data are not modelled).
resetWebsite(w) ==
    /\ Quiet
    /\ Cardinality({v \in Websites : website[v].resetAt # {}}) < MaxResets
    /\ website[w].resetAt = {}
    /\ websiteEvent' = websiteEvent \ EventsOf(w)
    /\ session' = session \ SessionsOf(w)
    /\ website' = [website EXCEPT ![w].resetAt = {now}]
    /\ UNCHANGED <<now, hourly, websiteStats, nextEventId, job, query>>
    /\ UNCHANGED <<poolVars, filterVars, collectVars, processVars, registryVars>>

\* The websites whose row is in the registry.
Registered(w) == deleted[w] # "hard"
\* website_stats.website_id REFERENCES website(website_id), with no ON DELETE
\* action: the row of a website that rollup rows reference cannot be deleted.
StatsReference(w) == \E r \in websiteStats : r.websiteId = w

\* deleteWebsite: one transaction deleting the website's events, sessions and
\* reports (event data, session data and reports are not modelled) and then
\* the website: marked deleted in cloud mode, its row deleted otherwise.  A
\* statement that fails rolls the transaction back and the call rejects.
deleteWebsite(w, cloudMode) ==
    /\ Quiet
    /\ deleted[w] \in {"none", "rejected"}
    /\ IF ~cloudMode /\ StatsReference(w)
       THEN /\ deleted' = [deleted EXCEPT ![w] = "rejected"]
            /\ UNCHANGED <<websiteEvent, session>>
       ELSE /\ websiteEvent' = websiteEvent \ EventsOf(w)
            /\ session' = session \ SessionsOf(w)
            /\ deleted' = [deleted EXCEPT ![w] = IF cloudMode THEN "soft" ELSE "hard"]
    /\ UNCHANGED <<now, website, hourly, websiteStats, nextEventId, job, query>>
    /\ UNCHANGED <<poolVars, filterVars, collectVars, processVars>>

\* Time passing, to the next instant at which something happens.
AdvanceClock ==
    /\ Quiet
    /\ nextInstant(now) <= MaxNow
    /\ now' = nextInstant(now)
    /\ UNCHANGED <<website, session, websiteEvent, hourly, websiteStats,
                   nextEventId, job, query>>
    /\ UNCHANGED <<poolVars, filterVars, collectVars, processVars, registryVars>>

(***************************************************************************)
(* Aggregation job: aggregateWebsiteStats, deleteOldData, main             *)
(***************************************************************************)
Jobs == {"scheduled"}
\* The invocations that may overlap: the scheduled one and a manual one.
Runs == {"scheduled", "manual"}
take == 100

NoMetrics == [pageviews |-> 0, sessions |-> 0, uniqueVisitors |-> 0,
              desktopViews |-> 0, mobileViews |-> 0, tabletViews |-> 0]
IdleJob == [pc |-> "idle", websites |-> <<>>, idx |-> 0, startDate |-> 0,
            endDate |-> 0, m |-> NoMetrics, urlData |-> <<>>,
            referrerData |-> <<>>, rerun |-> FALSE, attempted |-> {},
            failed |-> {}, exitCode |-> 0]

\* The website of the current loop iteration.
Current(j) == job[j].websites[job[j].idx]

\* prisma.session.findMany({where: {websiteId, createdAt: {gte, lt}},
\* include: {websiteEvent: true}}): the sessions created in the range, each
\* with all the events that reference it.
findSessions(w, startDate, endDate) ==
    {s \in session : /\ s.websiteId = w
                     /\ s.createdAt >= startDate
                     /\ s.createdAt < endDate}
sessionEvents(s) == {e \in websiteEvent : e.sessionId = s.id}

\* A plausible slip: the device is counted as it is spelled.
deviceOfAsSpelled(s) == IF s.device = "" THEN "unknown" ELSE s.device

\* session.device?.toLowerCase() || 'unknown'
deviceOf(s) == IF s.device = "" THEN "unknown" ELSE toLowerCase(s.device)
\* deviceCounts[d] || 0
deviceCount(S, d) == Cardinality({s \in S : deviceOf(s) = d})

\* The core metrics computed from the sessions read (lines 51-59, 110-115).
coreMetrics(S) ==
    [pageviews |-> SumOver(S, [s \in S |-> Cardinality(sessionEvents(s))]),
     sessions |-> Cardinality(S),
     uniqueVisitors |-> Cardinality({s.id : s \in S}),
     desktopViews |-> deviceCount(S, "desktop"),
     mobileViews |-> deviceCount(S, "mobile"),
     tabletViews |-> deviceCount(S, "tablet")]

\* The events of the website created in [startDate, endDate).
eventsInRange(w, startDate, endDate) ==
    {e \in websiteEvent : /\ e.websiteId = w
                          /\ e.createdAt >= startDate
                          /\ e.createdAt < endDate}

\* orderBy count desc, take n: the n keys with the largest counts (which of
\* several tied keys are kept is the database's choice).
topN(counts, n) ==
    IF Cardinality(DOMAIN counts) <= n THEN counts
    ELSE LET keep == CHOOSE T \in SUBSET (DOMAIN counts) :
                        /\ Cardinality(T) = n
                        /\ \A a \in T, b \in (DOMAIN counts) \ T : counts[a] >= counts[b]
         IN [k \in keep |-> counts[k]]

\* websiteEvent.groupBy({by: ['urlPath'], _count, take: 100}) reduced to a
\* keyed object (lines 62-78, 117-123).
groupByUrl(w, startDate, endDate) ==
    LET E == eventsInRange(w, startDate, endDate)
    IN topN([p \in {e.urlPath : e \in E} |->
                Cardinality({e \in E : e.urlPath = p})], take)

\* websiteEvent.groupBy({by: ['referrerDomain'], NOT null}) reduced to a keyed
\* object under the key `referrerDomain || 'direct'` (lines 81-94, 125-131).
\* The reduce overwrites: when '' and 'direct' both occur the later wins; the
\* collector stores '' for a missing referrer and never the word 'direct'.
groupByReferrer(w, startDate, endDate) ==
    LET E == eventsInRange(w, startDate, endDate)
        keyOf(d) == IF d = "" THEN "direct" ELSE d
    IN [k \in {keyOf(e.referrerDomain) : e \in E} |->
           Cardinality({e \in E : keyOf(e.referrerDomain) = k})]

statsFor(w, startDate) ==
    {r \in websiteStats : /\ r.websiteId = w
                          /\ r.startDate = startDate
                          /\ r.period = "daily"}

\* The `create` branch of the upsert.
createRow(w, startDate, endDate, m, urlData, referrerData) ==
    [websiteId |-> w, startDate |-> startDate, endDate |-> endDate,
     period |-> "daily", pageviews |-> m.pageviews, sessions |-> m.sessions,
     uniqueVisitors |-> m.uniqueVisitors, desktopViews |-> m.desktopViews,
     mobileViews |-> m.mobileViews, tabletViews |-> m.tabletViews,
     urlData |-> urlData, referrerData |-> referrerData]

\* A plausible slip: the update adds to the stored counters.
updateRowAdding(r, m, urlData, referrerData) ==
    [r EXCEPT !.pageviews = r.pageviews + m.pageviews,
              !.sessions = r.sessions + m.sessions,
              !.uniqueVisitors = m.uniqueVisitors,
              !.desktopViews = m.desktopViews, !.mobileViews = m.mobileViews,
              !.tabletViews = m.tabletViews,
              !.urlData = urlData, !.referrerData = referrerData]

\* The `update` branch of the upsert: every computed field is assigned.
updateRow(r, m, urlData, referrerData) ==
    [r EXCEPT !.pageviews = m.pageviews, !.sessions = m.sessions,
              !.uniqueVisitors = m.uniqueVisitors,
              !.desktopViews = m.desktopViews, !.mobileViews = m.mobileViews,
              !.tabletViews = m.tabletViews,
              !.urlData = urlData, !.referrerData = referrerData]

\* A plausible slip: insert-then-check, the row is always inserted.
upsertInserting(w, startDate, endDate, m, urlData, referrerData) ==
    websiteStats \cup {createRow(w, startDate, endDate, m, urlData, referrerData)}

\* prisma.websiteStats.upsert on the unique key (websiteId, startDate, period).
upsert(w, startDate, endDate, m, urlData, referrerData) ==
    IF statsFor(w, startDate) = {}
    THEN websiteStats \cup {createRow(w, startDate, endDate, m, urlData, referrerData)}
    ELSE (websiteStats \ statsFor(w, startDate)) \cup
         {updateRow(r, m, urlData, referrerData) : r \in statsFor(w, startDate)}

\* The script has ended with the given exit code: what remains of the run is
\* the list of websites, those it reached and the one that threw.
exited(r, code, failed) ==
    [IdleJob EXCEPT !.pc = "exited", !.exitCode = code, !.websites = r.websites,
                    !.attempted = r.attempted, !.failed = failed]

\* The loop head of main(): today = new Date(); the target day is the day
\* RETENTION_DAYS before it.
loopHead(r, i) ==
    [r EXCEPT !.idx = i,
              !.startDate = startOfDay(subDays(now, RETENTION_DAYS)),
              !.endDate = endOfDay(subDays(now, RETENTION_DAYS)),
              !.attempted = r.attempted \cup {r.websites[i]},
              !.rerun = FALSE, !.m = NoMetrics,
              !.urlData = <<>>, !.referrerData = <<>>,
              !.pc = "aggSessions"]

\* A scheduled (or manual) invocation of the script.
jobStart(j) ==
    /\ Quiet
    /\ job[j].pc \in {"idle", "exited"}
    /\ Day(now) >= RETENTION_DAYS
    /\ job' = [job EXCEPT ![j] = [IdleJob EXCEPT !.pc = "findWebsites"]]
    /\ UNCHANGED <<now, website, session, websiteEvent, hourly, websiteStats,
                   nextEventId, query>>
    /\ UNCHANGED <<poolVars, filterVars, collectVars, processVars, registryVars>>

\* prisma.website.findMany({where: {deletedAt: null}}), then the first loop
\* head (or the normal exit when there is no website).
jobFindWebsites(j) ==
    /\ Quiet
    /\ job[j].pc = "findWebsites"
    /\ LET r == [job[j] EXCEPT !.websites =
                    SelectSeqIdx(WebsiteOrder, {w \in Websites : deleted[w] \in {"none", "rejected"}}, 1)]
       IN job' = [job EXCEPT ![j] =
                    IF Len(r.websites) = 0
                    THEN exited(r, 0, {})
                    ELSE loopHead(r, 1)]
    /\ UNCHANGED <<now, website, session, websiteEvent, hourly, websiteStats,
                   nextEventId, query>>
    /\ UNCHANGED <<poolVars, filterVars, collectVars, processVars, registryVars>>

\* aggregateWebsiteStats, first await: the sessions and the core metrics.
jobAggSessions(j) ==
    /\ Quiet
    /\ job[j].pc = "aggSessions"
    /\ job' = [job EXCEPT ![j].m =
                    coreMetrics(findSessions(Current(j), job[j].startDate, job[j].endDate)),
                  ![j].pc = "aggUrl"]
    /\ UNCHANGED <<now, website, session, websiteEvent, hourly, websiteStats,
                   nextEventId, query>>
    /\ UNCHANGED <<poolVars, filterVars, collectVars, processVars, registryVars>>

\* aggregateWebsiteStats, second await: the URL counts.
jobAggUrl(j) ==
    /\ Quiet
    /\ job[j].pc = "aggUrl"
    /\ job' = [job EXCEPT ![j].urlData =
                    groupByUrl(Current(j), job[j].startDate, job[j].endDate),
                  ![j].pc = "aggRef"]
    /\ UNCHANGED <<now, website, session, websiteEvent, hourly, websiteStats,
                   nextEventId, query>>
    /\ UNCHANGED <<poolVars, filterVars, collectVars, processVars, registryVars>>

\* aggregateWebsiteStats, third await: the referrer counts.
jobAggRef(j) ==
    /\ Quiet
    /\ job[j].pc = "aggRef"
    /\ job' = [job EXCEPT ![j].referrerData =
                    groupByReferrer(Current(j), job[j].startDate, job[j].endDate),
                  ![j].pc = "aggUpsert"]
    /\ UNCHANGED <<now, website, session, websiteEvent, hourly, websiteStats,
                   nextEventId, query>>
    /\ UNCHANGED <<poolVars, filterVars, collectVars, processVars, registryVars>>

\* The row a run that computed the values of job j writes when none exists.
computedRow(j) ==
    createRow(Current(j), job[j].startDate, job[j].endDate, job[j].m,
              job[j].urlData, job[j].referrerData)

\* aggregateWebsiteStats, fourth await: the upsert.  (job.rerun remembers, for
\* the rest of the iteration, that the upsert met the row an earlier run had
\* written from the same computed values.)
jobAggUpsert(j) ==
    /\ Quiet
    /\ job[j].pc = "aggUpsert"
    /\ websiteStats' = upsert(Current(j), job[j].startDate, job[j].endDate,
                              job[j].m, job[j].urlData, job[j].referrerData)
    /\ job' = [job EXCEPT ![j].pc = "delEvents",
                          ![j].rerun = (statsFor(Current(j), job[j].startDate)
                                          = {computedRow(j)})]
    /\ UNCHANGED <<now, website, session, websiteEvent, hourly, nextEventId, query>>
    /\ UNCHANGED <<poolVars, filterVars, collectVars, processVars, registryVars>>

\* A plausible slip: the deleteMany filters on the date alone.
jobDelEventsAnyWebsite(j) ==
    /\ Quiet
    /\ job[j].pc = "delEvents"
    /\ websiteEvent' = {e \in websiteEvent : ~(e.createdAt < job[j].startDate)}
    /\ job' = [job EXCEPT ![j].pc = "delSessions"]
    /\ UNCHANGED <<now, website, session, hourly, websiteStats, nextEventId,
                   query>>
    /\ UNCHANGED <<poolVars, filterVars, collectVars, processVars, registryVars>>

\* deleteOldData, first await: websiteEvent.deleteMany({createdAt: {lt}}).
jobDelEvents(j) ==
    /\ Quiet
    /\ job[j].pc = "delEvents"
    /\ websiteEvent' = {e \in websiteEvent :
                          ~(e.websiteId = Current(j) /\ e.createdAt < job[j].startDate)}
    /\ job' = [job EXCEPT ![j].pc = "delSessions"]
    /\ UNCHANGED <<now, website, session, hourly, websiteStats, nextEventId,
                   query>>
    /\ UNCHANGED <<poolVars, filterVars, collectVars, processVars, registryVars>>

\* deleteOldData, second await: session.deleteMany({createdAt: {lt}}); then
\* the next loop head, or the normal exit: process.exit(0).
jobDelSessions(j) ==
    /\ Quiet
    /\ job[j].pc = "delSessions"
    /\ session' = {s \in session :
                     ~(s.websiteId = Current(j) /\ s.createdAt < job[j].startDate)}
    /\ job' = [job EXCEPT ![j] =
                 IF job[j].idx < Len(job[j].websites)
                 THEN loopHead(job[j], job[j].idx + 1)
                 ELSE exited(job[j], 0, {})]
    /\ UNCHANGED <<now, website, websiteEvent, hourly, websiteStats, nextEventId,
                   query>>
    /\ UNCHANGED <<poolVars, filterVars, collectVars, processVars, registryVars>>

\* A plausible slip: the failure of aggregateWebsiteStats is caught inside the
\* loop and the iteration goes on to deleteOldData.
jobThrowThenDelete(j) ==
    /\ Quiet
    /\ job[j].pc \in {"aggSessions", "aggUrl", "aggRef", "aggUpsert"}
    /\ job' = [job EXCEPT ![j].pc = "delEvents"]
    /\ UNCHANGED <<now, website, session, websiteEvent, hourly, websiteStats,
                   nextEventId, query>>
    /\ UNCHANGED <<poolVars, filterVars, collectVars, processVars, registryVars>>

\* A plausible slip: the catch of main() logs the error and does not rethrow,
\* so that the script ends as after a normal return.
jobThrowSwallowed(j) ==
    /\ Quiet
    /\ job[j].pc \in {"findWebsites", "aggSessions", "aggUrl", "aggRef",
                      "aggUpsert", "delEvents", "delSessions"}
    /\ job' = [job EXCEPT ![j] =
                  exited(job[j], 0, IF job[j].pc = "findWebsites" THEN {}
                                    ELSE {Current(j)})]
    /\ UNCHANGED <<now, website, session, websiteEvent, hourly, websiteStats,
                   nextEventId, query>>
    /\ UNCHANGED <<poolVars, filterVars, collectVars, processVars, registryVars>>

\* Any awaited database call of main() rejecting: the catch of main() logs and
\* rethrows, the finally disconnects, and the script ends: process.exit(1).
jobThrow(j) ==
    /\ Quiet
    /\ job[j].pc \in {"findWebsites", "aggSessions", "aggUrl", "aggRef",
                      "aggUpsert", "delEvents", "delSessions"}
    /\ job' = [job EXCEPT ![j] =
                  exited(job[j], 1, IF job[j].pc = "findWebsites" THEN {}
                                    ELSE {Current(j)})]
    /\ UNCHANGED <<now, website, session, websiteEvent, hourly, websiteStats,
                   nextEventId, query>>
    /\ UNCHANGED <<poolVars, filterVars, collectVars, processVars, registryVars>>

(***************************************************************************)
(* Router: getPageviewStats (relationalQuery, clickhouseQuery)             *)
(***************************************************************************)
Units == {"minute", "hour", "day"}
\* The names of lib/constants EVENT_COLUMNS: the dimensions that force a scan.
EVENT_COLUMNS == {"browser", "os", "device", "country", "url", "referrer"}
\* The filters a request may carry: none, or url = FilterUrl.
FilterSets == {{}, {"url"}}
FilterUrl == "/a"
\* Requested ranges: whole days from an early day to the day after the last.
QueryStarts == {d * TicksPerDay : d \in 0..MaxIngestDay}
QueryEnds == {endOfDay(d * TicksPerDay) : d \in 0..(MaxIngestDay + 1)}

\* date_trunc(unit, created_at)
getDateSQL(unit, t) ==
    IF unit = "day" THEN startOfDay(t)
    ELSE IF unit = "hour" THEN toStartOfHour(t)
    ELSE t

\* maxDate of lib/date: the later of two instants.
maxDate(a, b) == IF a >= b THEN a ELSE b
\* new Date(website?.resetAt): the epoch when resetAt is null.
resetDate(w) == IF website[w].resetAt = {} THEN 0
                ELSE CHOOSE t \in website[w].resetAt : TRUE

\* A plausible slip: the requested start date is passed through.
parseFiltersStartDateRequested(w, startDate) == startDate

\* parseFilters(...).params.startDate
parseFiltersStartDate(w, startDate) == maxDate(startDate, resetDate(w))

\* getFilterQuery for the filters of the model: `and url_path = {url}`.
filterQuery(e, filters) == "url" \in filters => e.urlPath = FilterUrl

\* websiteStats.findMany({where: {websiteId, startDate: {gte: startOfDay(start),
\* lte: endOfDay(end)}, period: 'daily'}, orderBy: {startDate: 'asc'}}) mapped
\* to {x: startDate, y: pageviews}.
aggregatedStats(w, start, end) ==
    LET rows == {r \in websiteStats : /\ r.websiteId = w
                                      /\ r.startDate >= startOfDay(start)
                                      /\ r.startDate <= endOfDay(end)
                                      /\ r.period = "daily"}
        xs == SortedBy({r.startDate : r \in rows})
    IN [i \in 1..Len(xs) |->
          [x |-> xs[i],
           y |-> (CHOOSE r \in rows : r.startDate = xs[i]).pageviews]]

\* The scan of website_event: count(*) per bucket, order by bucket.
rawScan(w, unit, startDate, endDate, filters) ==
    LET E == {e \in websiteEvent : /\ e.websiteId = w
                                   /\ e.createdAt >= startDate
                                   /\ e.createdAt <= endDate
                                   /\ e.eventType = "pageView"
                                   /\ filterQuery(e, filters)}
        xs == SortedBy({getDateSQL(unit, e.createdAt) : e \in E})
    IN [i \in 1..Len(xs) |->
          [x |-> xs[i],
           y |-> Cardinality({e \in E : getDateSQL(unit, e.createdAt) = xs[i]})]]

\* The scan of website_event_stats_hourly: sum(views) per bucket.
hourlyScan(w, unit, startDate, endDate) ==
    LET H == {h \in hourly : /\ h.websiteId = w
                             /\ h.createdAt >= startDate
                             /\ h.createdAt <= endDate
                             /\ h.eventType = "pageView"}
        xs == SortedBy({getDateSQL(unit, h.createdAt) : h \in H})
    IN [i \in 1..Len(xs) |->
          [x |-> xs[i],
           y |-> LET B == {h \in H : getDateSQL(unit, h.createdAt) = xs[i]}
                 IN SumOver(B, [h \in B |-> h.views])]]

usesEventColumns(filters) == \E item \in EVENT_COLUMNS : item \in filters

\* relationalQuery (lines 46-110): source and series.
relationalQuery(w, unit, startDate, endDate, filters) ==
    IF unit = "day" /\ Len(aggregatedStats(w, startDate, endDate)) > 0
    THEN [source |-> "rollup", series |-> aggregatedStats(w, startDate, endDate)]
    ELSE [source |-> "raw",
          series |-> rawScan(w, unit, parseFiltersStartDate(w, startDate),
                             endDate, filters)]

\* A plausible slip: the scan is chosen on the filters alone, so that a query
\* by minute reads the hourly table.
clickhouseQueryNoMinute(w, unit, startDate, endDate, filters) ==
    IF /\ unit = "day"
       /\ ~usesEventColumns(filters)
       /\ Len(aggregatedStats(w, startDate, endDate)) > 0
    THEN [source |-> "rollup", series |-> aggregatedStats(w, startDate, endDate)]
    ELSE IF usesEventColumns(filters)
    THEN [source |-> "raw",
          series |-> rawScan(w, unit, parseFiltersStartDate(w, startDate),
                             endDate, filters)]
    ELSE [source |-> "hourly",
          series |-> hourlyScan(w, unit, parseFiltersStartDate(w, startDate),
                                endDate)]

\* clickhouseQuery (lines 112-204): source and series.
clickhouseQuery(w, unit, startDate, endDate, filters) ==
    IF /\ unit = "day"
       /\ ~usesEventColumns(filters)
       /\ Len(aggregatedStats(w, startDate, endDate)) > 0
    THEN [source |-> "rollup", series |-> aggregatedStats(w, startDate, endDate)]
    ELSE IF usesEventColumns(filters) \/ unit = "minute"
    THEN [source |-> "raw",
          series |-> rawScan(w, unit, parseFiltersStartDate(w, startDate),
                             endDate, filters)]
    ELSE [source |-> "hourly",
          series |-> hourlyScan(w, unit, parseFiltersStartDate(w, startDate),
                                endDate)]

\* getPageviewStats: runQuery dispatches on the configured backend.
getPageviewStats(path, w, unit, startDate, endDate, filters) ==
    /\ Quiet
    /\ startDate <= endDate
    /\ LET res == IF path = "prisma"
                  THEN relationalQuery(w, unit, startDate, endDate, filters)
                  ELSE clickhouseQuery(w, unit, startDate, endDate, filters)
       IN query' = [source |-> res.source, path |-> path, websiteId |-> w,
                    unit |-> unit, startDate |-> startDate, endDate |-> endDate,
                    filters |-> filters, series |-> res.series]
    /\ UNCHANGED <<now, website, session, websiteEvent, hourly, websiteStats,
                   nextEventId, job>>
    /\ UNCHANGED <<poolVars, filterVars, collectVars, processVars, registryVars>>

\* The response is sent; the next request or step follows.
queryReturn ==
    /\ ~Quiet
    /\ query' = NoQuery
    /\ UNCHANGED <<now, website, session, websiteEvent, hourly, websiteStats,
                   nextEventId, job>>
    /\ UNCHANGED <<poolVars, filterVars, collectVars, processVars, registryVars>>

(***************************************************************************)
(* Filter translation: mapFilter, getFilterQuery, parseFilters             *)
(***************************************************************************)
MaxFilters == 2        \* filters carried by one request

\* lib/constants OPERATORS: the operators mapFilter has a case for.
OPERATORS == {"equals", "notEquals", "contains", "doesNotContain"}
\* Any other operator string a filter may carry.
OtherOperator == "startsWith"
\* lib/constants FILTER_COLUMNS: the column of each known dimension; a name
\* without an entry has no column (undefined, here the empty string).
FilterNames == {"url", "referrer", "shoeSize", "websiteId", "websiteDomain"}
\* The value a filter carries: here the identifier of another website.
FilterValues == {"w2"}
FILTER_COLUMNS(name) ==
    IF name = "url" THEN "url_path"
    ELSE IF name = "referrer" THEN "referrer_domain"
    ELSE ""

\* The filters of a request: Object.keys order, one entry per dimension.
FilterLists ==
    {fs \in UNION {[1..n -> [name : FilterNames,
                               operator : OPERATORS \cup {OtherOperator},
                               value : FilterValues]] :
                      n \in 0..MaxFilters} :
        \A i, k \in 1..Len(fs) : i # k => fs[i].name # fs[k].name}
\* The start dates a request may carry: starts of days around the resets.
FilterStarts == {d * TicksPerDay : d \in {0, 1, RETENTION_DAYS + 1}}

\* lib/params filtersToArray: every filter with its name, operator, column and
\* value.
filtersToArray(filters) ==
    [i \in 1..Len(filters) |->
        [name |-> filters[i].name, operator |-> filters[i].operator,
         column |-> FILTER_COLUMNS(filters[i].name), value |-> filters[i].value]]

\* The predicate text `column test {name:String}`; NoPredicate is ''.
NoPredicate == [column |-> "", test |-> "", value |-> ""]
\* mapFilter (lines 198-213): the switch on the operator.
mapFilter(column, operator, name) ==
    IF operator = "equals" THEN [column |-> column, test |-> "=", value |-> name]
    ELSE IF operator = "notEquals" THEN [column |-> column, test |-> "!=", value |-> name]
    ELSE IF operator = "contains"
    THEN [column |-> column, test |-> "positionCaseInsensitive > 0", value |-> name]
    ELSE IF operator = "doesNotContain"
    THEN [column |-> column, test |-> "positionCaseInsensitive = 0", value |-> name]
    ELSE NoPredicate

\* 'and referrer_domain != {websiteDomain:String}'
NotOwnDomain == [column |-> "referrer_domain", test |-> "!=", value |-> "websiteDomain"]

RECURSIVE getFilterQueryEveryFilter(_)
\* A plausible slip: the reduce pushes without testing the column.
getFilterQueryEveryFilter(arr) ==
    IF arr = <<>> THEN <<>>
    ELSE <<mapFilter(Head(arr).column, Head(arr).operator, Head(arr).name)>>
            \o getFilterQueryEveryFilter(Tail(arr))

RECURSIVE getFilterQueryNoOwnDomain(_)
\* A plausible slip: the referrer filter is translated like any other.
getFilterQueryNoOwnDomain(arr) ==
    IF arr = <<>> THEN <<>>
    ELSE (IF Head(arr).column # ""
          THEN <<mapFilter(Head(arr).column, Head(arr).operator, Head(arr).name)>>
          ELSE <<>>)
         \o getFilterQueryNoOwnDomain(Tail(arr))

RECURSIVE getFilterQuery(_)
\* getFilterQuery (lines 215-229): the lines `and <predicate>` the reduce
\* pushes, in order (the result is their join by newline).
getFilterQuery(arr) ==
    IF arr = <<>> THEN <<>>
    ELSE (IF Head(arr).column # ""
          THEN <<mapFilter(Head(arr).column, Head(arr).operator, Head(arr).name)>>
                  \o (IF Head(arr).name = "referrer" THEN <<NotOwnDomain>> ELSE <<>>)
          ELSE <<>>)
         \o getFilterQuery(Tail(arr))

\* website.domain as getWebsite returns it: fixed when the website is created.
websiteDomain(w) == IF w = "w1" THEN "one.example" ELSE "two.example"

\* getFilterParams (lines 251-259): the value of every filter under its name;
\* the requested start date is the filter named startDate.
getFilterParams(startDate, filters) ==
    LET arr == filtersToArray(filters)
        names == {arr[i].name : i \in 1..Len(arr)}
        last(n) == CHOOSE i \in 1..Len(arr) :
                      /\ arr[i].name = n
                      /\ \A k \in (i + 1)..Len(arr) : arr[k].name # n
    IN [n \in names |-> arr[last(n)].value] @@ ("startDate" :> startDate)

\* A plausible slip: the filter values are spread after the fixed keys.
parseFiltersParamsFiltersLast(w, startDate, filters) ==
    getFilterParams(startDate, filters)
        @@ [websiteId |-> w,
            startDate |-> parseFiltersStartDate(w, startDate),
            websiteDomain |-> websiteDomain(w)]

\* The params of parseFilters (lines 267-272): the filter values, then the
\* keys websiteId, startDate and websiteDomain over them.
parseFiltersParams(w, startDate, filters) ==
    [websiteId |-> w,
     startDate |-> parseFiltersStartDate(w, startDate),
     websiteDomain |-> websiteDomain(w)]
        @@ getFilterParams(startDate, filters)

NoTranslation == [call |-> "none", websiteId |-> "", startDate |-> 0,
                  filters |-> <<>>, filterQuery |-> <<>>,
                  params |-> [websiteId |-> "", startDate |-> 0,
                              websiteDomain |-> ""]]

\* parseFilters (lines 261-274): after getWebsite, the filter text and the
\* parameters.
parseFilters(w, startDate, filters) ==
    /\ translated = NoTranslation
    /\ translated' =
          [call |-> "parseFilters", websiteId |-> w, startDate |-> startDate,
           filters |-> filters,
           filterQuery |-> getFilterQuery(filtersToArray(filters)),
           params |-> parseFiltersParams(w, startDate, filters)]
    /\ UNCHANGED <<poolVars, dataVars, collectVars, processVars, registryVars>>

\* The caller has built and sent its query from what parseFilters returned.
parseFiltersReturn ==
    /\ translated # NoTranslation
    /\ translated' = NoTranslation
    /\ UNCHANGED <<poolVars, dataVars, collectVars, processVars, registryVars>>

(***************************************************************************)
(* The server process: module load, connect(), setupGracefulShutdown       *)
(***************************************************************************)
\* The process once lib/clickhouse has been loaded.  enabled is
\* Boolean(process.env.CLICKHOUSE_URL); handlers tells whether
\* setupGracefulShutdown() has registered its handlers (production).  The
\* module creates the pool whatever enabled is, and initialize() evaluates
\* new URL(process.env.CLICKHOUSE_URL) before anything else: without a URL it
\* throws, and the promise of initialize(), which nothing awaits, is rejected.
Loaded(enabled, handlers) ==
    [enabled |-> enabled, handlers |-> handlers, pc |-> "running",
     rejection |-> IF enabled THEN "none" ELSE "pending",
     prisma |-> "connected", connectResult |-> "none",
     cause |-> "none", exitCode |-> 0]

\* process.exit(code), or the death of the process.
exit(p, cause, code) ==
    [p EXCEPT !.pc = "exited", !.cause = cause, !.exitCode = code]

\* cleanup() up to its first suspension.  With ClickHouse enabled it calls
\* clickhouse.pool.cleanup(), which ClickHousePool does not define: the call
\* throws, the catch logs, and process.exit(0) follows at once.  Otherwise it
\* suspends on prisma.client.$disconnect().
cleanup(p, cause) ==
    IF p.enabled
    THEN exit(p, cause, 0)
    ELSE [p EXCEPT !.pc = "disconnecting", !.cause = cause]

\* SIGTERM or SIGINT arrives: the registered handler runs cleanup(); without
\* handlers the signal ends the process.
Signal ==
    /\ process.pc = "running"
    /\ process.rejection # "pending"
    /\ process' = IF process.handlers THEN cleanup(process, "signal")
                  ELSE exit(process, "killed", 1)
    /\ UNCHANGED <<poolVars, dataVars, filterVars, collectVars, registryVars>>

\* cleanup() resuming after `await prisma.client.$disconnect()`: the log, then
\* process.exit(0).
DisconnectResume ==
    /\ process.pc = "disconnecting"
    /\ process' = exit([process EXCEPT !.prisma = "disconnected"], process.cause, 0)
    /\ UNCHANGED <<poolVars, dataVars, filterVars, collectVars, registryVars>>

\* The rejected promise of initialize() is reported once the loading tick is
\* over: the registered handler runs cleanup(); without one the runtime either
\* ends the process with a failure status or only warns, by its version.
UnhandledRejection ==
    /\ process.pc = "running"
    /\ process.rejection = "pending"
    /\ LET p == [process EXCEPT !.rejection = "reported"]
       IN IF process.handlers
          THEN process' = cleanup(p, "rejection")
          ELSE process' \in {exit(p, "rejection", 1), p}
    /\ UNCHANGED <<poolVars, dataVars, filterVars, collectVars, registryVars>>

\* connect() (lines 359-364) without ClickHouse: returns null.  With ClickHouse
\* it is pool.acquire(): AcquireCall for the operation "connect".
connectDisabled ==
    /\ process.pc = "running"
    /\ process.rejection # "pending"
    /\ ~process.enabled
    /\ process' = [process EXCEPT !.connectResult = "null"]
    /\ UNCHANGED <<poolVars, dataVars, filterVars, collectVars, registryVars>>

\* The pool at work inside the running process.
poolAtWork == process.enabled /\ process.pc = "running" /\ PoolNext

(***************************************************************************)
(* Specifications                                                          *)
(***************************************************************************)
IdleTimeoutMillis == 1
AcquireTimeoutMillis == 2

\* The state the constructor leaves for config.min = mn, config.max = mx:
\* initialize() has run up to its first await.
PoolInitFor(mn, mx) ==
    /\ config = [min |-> mn, max |-> mx,
                 acquireTimeoutMillis |-> AcquireTimeoutMillis,
                 idleTimeoutMillis |-> IdleTimeoutMillis]
    /\ clients = IF mn > 0 THEN <<1>> ELSE <<>>
    /\ isIdle = [id \in ClientIds |-> id = 1 /\ mn > 0]
    /\ lastUsed = [id \in ClientIds |-> 0]
    /\ closed = [id \in ClientIds |-> FALSE]
    /\ initPc = IF mn > 0 THEN "awaiting" ELSE "done"
    /\ initI = 0
    /\ reaperStarted = (mn = 0)
    /\ cpc = [c \in Callers |-> "none"]
    /\ cref = [c \in Callers |-> NoClient]
    /\ waitStart = [c \in Callers |-> 0]
    /\ cop = [c \in Callers |-> NoOperation]
    /\ shutdown = [calls |-> 0, done |-> 0]
    /\ pnow = 0

\* The state the constructor leaves when process.env.CLICKHOUSE_URL is not
\* set: initialize() threw at new URL(...) before createClient() and before
\* startReaper(); the configuration is the default one (scaled to the bounds).
PoolInitFailed ==
    /\ config = [min |-> MaxMin, max |-> MaxMax,
                 acquireTimeoutMillis |-> AcquireTimeoutMillis,
                 idleTimeoutMillis |-> IdleTimeoutMillis]
    /\ clients = <<>>
    /\ isIdle = [id \in ClientIds |-> FALSE]
    /\ lastUsed = [id \in ClientIds |-> 0]
    /\ closed = [id \in ClientIds |-> FALSE]
    /\ initPc = "failed"
    /\ initI = 0
    /\ reaperStarted = FALSE
    /\ cpc = [c \in Callers |-> "none"]
    /\ cref = [c \in Callers |-> NoClient]
    /\ waitStart = [c \in Callers |-> 0]
    /\ cop = [c \in Callers |-> NoOperation]
    /\ shutdown = [calls |-> 0, done |-> 0]
    /\ pnow = 0

\* The process of the specifications that do not follow it: ClickHouse is
\* configured and the shutdown handlers are registered.
ProcessInit == process = Loaded(TRUE, TRUE)

DataInit ==
    /\ now = 0
    /\ website = [w \in Websites |-> [resetAt |-> {}]]
    /\ session = {}
    /\ websiteEvent = {}
    /\ hourly = {}
    /\ websiteStats = {}
    /\ nextEventId = 0
    /\ job = [j \in Runs |-> IdleJob]
    /\ query = NoQuery
    /\ translated = NoTranslation
    /\ token = [s \in SessionIds |-> NoToken]
    /\ eventVisit = [i \in 1..MaxEvents |-> NoVisit]
    /\ deleted = [w \in Websites |-> "none"]

\* No run of the job is in progress.
JobsAtRest == \A j \in Jobs : job[j].pc \in {"idle", "exited"}

\* SpecData serves requests between the runs of the job and collects events
\* on the early days: the three scoped actions below are the same handlers.
collect(s, shape) == Day(now) <= MaxIngestDay /\ saveEvent(s, shape)
reset(w) == JobsAtRest /\ resetWebsite(w)
request(path, w, unit, startDate, endDate, filters) ==
    JobsAtRest /\ getPageviewStats(path, w, unit, startDate, endDate, filters)

\* The websites whose owner resets them and asks for their statistics; the
\* other website is a bystander with its own events and rollups.
Queried == {"w1"}

DataNext ==
    \/ \E s \in SessionIds, shape \in EventShapes : collect(s, shape)
    \/ \E w \in Queried : reset(w)
    \/ AdvanceClock
    \/ \E j \in Jobs : jobStart(j)
    \/ \E j \in Jobs : jobFindWebsites(j)
    \/ \E j \in Jobs : jobAggSessions(j)
    \/ \E j \in Jobs : jobAggUrl(j)
    \/ \E j \in Jobs : jobAggRef(j)
    \/ \E j \in Jobs : jobAggUpsert(j)
    \/ \E j \in Jobs : jobDelEvents(j)
    \/ \E j \in Jobs : jobDelSessions(j)
    \/ \E path \in {"prisma", "clickhouse"}, w \in Queried, unit \in Units,
          startDate \in QueryStarts, endDate \in QueryEnds, filters \in FilterSets :
          request(path, w, unit, startDate, endDate, filters)
    \/ queryReturn

\* The connection pool alone, for every configuration with max >= min >= 0
\* within the bounds; the stores stay as constructed.
InitPool ==
    /\ \E mn \in 0..MaxMin : \E mx \in mn..MaxMax : PoolInitFor(mn, mx)
    /\ ProcessInit
    /\ DataInit
SpecPool == InitPool /\ [][PoolNext]_vars
\* The pool with end() called at any moment, for the configurations that
\* warm up one client.
InitShutdown ==
    /\ \E mx \in 1..MaxMax : PoolInitFor(1, mx)
    /\ ProcessInit
    /\ DataInit
ShutdownNext ==
    \/ PoolNext
    \/ EndCall
    \/ EndResume
SpecShutdown == InitShutdown /\ [][ShutdownNext]_vars
\* The pool under the scheduling of the event loop: time passes, pending
\* continuations resume, and an armed timer whose time has come fires once
\* the microtask queue is empty, however often it fills again.
SpecPoolFair ==
    /\ InitPool
    /\ [][PoolNext]_vars
    /\ WF_vars(PoolTick)
    /\ WF_vars(InitializeStep)
    /\ \A c \in Callers : WF_vars(AcquireResume(c))
    /\ \A c \in Callers : SF_vars(AcquireTimeout(c))
\* The stores, the job, resets and the router; the pool stays as constructed.
InitData ==
    /\ PoolInitFor(0, MaxMax)
    /\ ProcessInit
    /\ DataInit
SpecData == InitData /\ [][DataNext]_vars
\* The stores and the job alone: events arrive at any instant, also between
\* the steps of a run.
JobNext ==
    \/ \E s \in SessionIds, shape \in EventShapes : saveEvent(s, shape)
    \/ AdvanceClock
    \/ \E j \in Jobs : jobStart(j)
    \/ \E j \in Jobs : jobFindWebsites(j)
    \/ \E j \in Jobs : jobAggSessions(j)
    \/ \E j \in Jobs : jobAggUrl(j)
    \/ \E j \in Jobs : jobAggRef(j)
    \/ \E j \in Jobs : jobAggUpsert(j)
    \/ \E j \in Jobs : jobDelEvents(j)
    \/ \E j \in Jobs : jobDelSessions(j)
    \/ \E j \in Jobs : jobThrow(j)
SpecJob == InitData /\ [][JobNext]_vars
\* Overlapping runs of the job over the events collected on the early days:
\* the scheduled invocation recurs, the manual one happens once.
runStart(j) == (j = "manual" => job[j].pc = "idle") /\ jobStart(j)
RunsNext ==
    \/ \E s \in SessionIds, shape \in EventShapes : collect(s, shape)
    \/ AdvanceClock
    \/ \E j \in Runs : runStart(j)
    \/ \E j \in Runs : jobFindWebsites(j)
    \/ \E j \in Runs : jobAggSessions(j)
    \/ \E j \in Runs : jobAggUrl(j)
    \/ \E j \in Runs : jobAggRef(j)
    \/ \E j \in Runs : jobAggUpsert(j)
    \/ \E j \in Runs : jobDelEvents(j)
    \/ \E j \in Runs : jobDelSessions(j)
SpecRuns == InitData /\ [][RunsNext]_vars
\* The filter translator over the registry: websites are reset at any instant
\* and requests carry any filters and start date.
FiltersNext ==
    \/ \E w \in Websites : resetWebsite(w)
    \/ AdvanceClock
    \/ \E w \in Websites, startDate \in FilterStarts, filters \in FilterLists :
          parseFilters(w, startDate, filters)
    \/ parseFiltersReturn
SpecFilters == InitData /\ [][FiltersNext]_vars
\* The collector alone: clients send events at any instant, each with the
\* token of its previous response.
CollectNext ==
    \/ \E s \in SessionIds, shape \in EventShapes : sendEvent(s, shape)
    \/ AdvanceClock
SpecCollect == InitData /\ [][CollectNext]_vars
\* The registry with deletions: events arrive on the early days for the
\* websites that exist, the job runs, and websites are deleted in either mode.
collectRegistered(s, shape) == Registered(SessionWebsite(s)) /\ collect(s, shape)
remove(w, cloudMode) == JobsAtRest /\ deleteWebsite(w, cloudMode)
DeleteNext ==
    \/ \E s \in SessionIds, shape \in EventShapes : collectRegistered(s, shape)
    \/ AdvanceClock
    \/ \E j \in Jobs : jobStart(j)
    \/ \E j \in Jobs : jobFindWebsites(j)
    \/ \E j \in Jobs : jobAggSessions(j)
    \/ \E j \in Jobs : jobAggUrl(j)
    \/ \E j \in Jobs : jobAggRef(j)
    \/ \E j \in Jobs : jobAggUpsert(j)
    \/ \E j \in Jobs : jobDelEvents(j)
    \/ \E j \in Jobs : jobDelSessions(j)
    \/ \E w \in Websites, cloudMode \in BOOLEAN : remove(w, cloudMode)
SpecDelete == InitData /\ [][DeleteNext]_vars
\* The server process from the load of lib/clickhouse to its exit, with and
\* without a ClickHouse URL and with and without the shutdown handlers.
InitProcess ==
    /\ \E handlers \in BOOLEAN :
          \/ (\E mx \in 1..MaxMax : PoolInitFor(1, mx)) /\ process = Loaded(TRUE, handlers)
          \/ PoolInitFailed /\ process = Loaded(FALSE, handlers)
    /\ DataInit
ProcessNext ==
    \/ poolAtWork
    \/ Signal
    \/ DisconnectResume
    \/ UnhandledRejection
    \/ connectDisabled
SpecProcess == InitProcess /\ [][ProcessNext]_vars

(***************************************************************************)
(* Claims                                                                  *)
(***************************************************************************)

\* C1: a connection is never held by two callers at once: two callers whose
\* acquire() has returned and who have not yet released hold different clients.
C1_ExclusiveHold ==
    \A c1, c2 \in Callers :
        (c1 # c2 /\ cpc[c1] = "holding" /\ cpc[c2] = "holding")
            => cref[c1] # cref[c2]

\* C3: for every configuration with max >= min >= 0 the number of connections
\* in the pool (idle and busy) never exceeds max.
C3_AtMostMax == Len(clients) <= config.max

\* C4: once warm-up has completed the number of connections in the pool never
\* drops below min, whatever a reaper pass finds expired.
C4_AtLeastMin == initPc = "done" => Len(clients) >= config.min

\* C5: every connection a step removes from the pool (only the reaper removes)
\* was idle, not busy, and its time since last use exceeded the idle timeout.
C5_ReapsOnlyIdle ==
    [][\A id \in Range(clients) \ Range(clients') :
          /\ isIdle[id]
          /\ pnow - lastUsed[id] > config.idleTimeoutMillis]_vars

\* C12: once end() has been called, no acquire() hands out a connection and no
\* connection is created.
C12_NoAcquireAfterShutdown ==
    [][shutdown.calls > 0 =>
          /\ \A c \in Callers : cpc'[c] = "holding" => cpc[c] = "holding"
          /\ Range(clients') \subseteq Range(clients)]_vars

\* C13: a caller waiting in acquire() does not wait forever: when its timeout
\* falls within the horizon of the clock, its acquire() is eventually rejected
\* (or served).
C13_AcquireTimesOut ==
    \A c \in Callers :
        (cpc[c] = "waiting" /\ waitStart[c] + config.acquireTimeoutMillis <= MaxPoolTime)
            ~> (cpc[c] # "waiting")

\* C13 witness: an acquire() was rejected by its timeout while the pool held
\* max connections, all of them busy.
C13_Witness ==
    \E c \in Callers :
        /\ cpc[c] = "timedOut"
        /\ config.max > 0
        /\ Len(clients) >= config.max
        /\ \A id \in Range(clients) : ~isIdle[id]

\* C14: rawQuery and insert release the client they acquired on every path and
\* only then: when the operation ends, returning or throwing, its client (if
\* still reachable) is idle with lastUsed = now and the caller has dropped it;
\* a client turns idle only through the operation that holds it; and when
\* acquire() itself failed nothing is released.
C14_ReleaseOnEveryPath ==
    [][/\ \A c \in Callers :
             (cpc[c] = "holding" /\ cop[c] \in {"rawQuery", "insert"}
                                /\ cpc'[c] # "holding")
                 => /\ cref'[c] = NoClient
                    /\ cref[c] \in Referenced' =>
                          (isIdle'[cref[c]] /\ lastUsed'[cref[c]] = pnow)
       /\ \A id \in Referenced \ {NoClient} :
             (~isIdle[id] /\ isIdle'[id])
                 => \E c \in Callers : /\ cref[c] = id
                                       /\ cpc[c] = "holding"
                                       /\ cpc'[c] # "holding"
       /\ \A c \in Callers :
             (cpc[c] = "timedOut" /\ cpc'[c] # "timedOut")
                 => (isIdle' = isIdle /\ lastUsed' = lastUsed)]_vars

\* C14 witness: an operation has thrown, and every client of the pool,
\* the one it used included, is idle.
C14_Witness ==
    /\ \E c \in Callers : cpc[c] = "threw"
    /\ \A c \in Callers : cpc[c] \in {"threw", "none"}
    /\ clients # <<>>
    /\ \A id \in Range(clients) : isIdle[id]

\* C19: a call of end() that completes leaves the pool empty with every
\* connection that was in it closed, also when calls overlap.
C19_EndClosesAll ==
    [][shutdown'.done > shutdown.done =>
          /\ clients' = <<>>
          /\ \A id \in Range(clients) : closed[id]]_vars

\* C20: a caller whose operation is over (returned, threw, or was never
\* served) keeps no connection of the pool.
C20_NoRetention ==
    \A c \in Callers :
        cpc[c] \in {"none", "timedOut", "threw", "retained"} => cref[c] = NoClient

\* C2: the job never deletes a raw event or a session of a website unless a
\* daily rollup row for that website and for the day of that row is stored.
C2_DeleteOnlySummarized ==
    [][/\ \A e \in websiteEvent \ websiteEvent' :
             statsFor(e.websiteId, startOfDay(e.createdAt)) # {}
       /\ \A s \in session \ session' :
             statsFor(s.websiteId, startOfDay(s.createdAt)) # {}]_vars

\* C9: a run of the job that has ended has processed every website of its
\* list: a website that threw does not keep the later ones from being reached.
C9_EveryWebsiteProcessed ==
    \A j \in Jobs :
        job[j].pc = "exited" => Range(job[j].websites) \subseteq job[j].attempted

\* The days of the requested range of the last query, as start-of-day instants.
QueryDays == {d * TicksPerDay : d \in Day(query.startDate)..Day(query.endDate)}

\* C6: the router answers from the daily rollup only when a rollup row exists
\* for every day of the requested range.
C6_RollupCoversRange ==
    query.source = "rollup" =>
        \A d \in QueryDays : statsFor(query.websiteId, d) # {}

\* C7: on either path a query that filters on a dimension only raw events
\* carry is never answered from the daily rollup.
C7_FilteredNeverRollup ==
    query.source = "rollup" => ~usesEventColumns(query.filters)

\* The value a series gives for the bucket that starts at x (0 when the
\* series has no such bucket).
valueAt(series, x) ==
    IF \E i \in 1..Len(series) : series[i].x = x
    THEN series[CHOOSE i \in 1..Len(series) : series[i].x = x].y
    ELSE 0

\* No collected event has been deleted: the raw dataset is the one collected.
RawIntact == Cardinality(websiteEvent) = nextEventId

\* C15: when the rollup path answers an unfiltered query whose range is fully
\* covered by daily rollups, over raw data that is still whole, its series
\* equals bucket for bucket the series of the direct scan of the raw events
\* for the same website and range.
C15_RollupEqualsScan ==
    (/\ query.source = "rollup"
     /\ ~usesEventColumns(query.filters)
     /\ \A d \in QueryDays : statsFor(query.websiteId, d) # {}
     /\ RawIntact)
        => \A d \in QueryDays :
              valueAt(query.series, d) =
                  valueAt(rawScan(query.websiteId, "day",
                                  parseFiltersStartDate(query.websiteId, query.startDate),
                                  query.endDate, {}), d)

\* The last instant of the bucket that starts at x.
bucketEnd(unit, x) ==
    IF unit = "day" THEN endOfDay(x)
    ELSE IF unit = "hour" THEN x + TicksPerHour - 1
    ELSE x

\* C8: for a website reset at R, a query with startDate < R returns, whichever
\* source answers it, only buckets that reach into [R, endDate].
C8_NoPreResetBuckets ==
    (~Quiet /\ website[query.websiteId].resetAt # {}
            /\ query.startDate < resetDate(query.websiteId))
        => \A i \in 1..Len(query.series) :
              bucketEnd(query.unit, query.series[i].x) >= resetDate(query.websiteId)

\* An upsert step of job j.
UpsertStep(j) == job[j].pc = "aggUpsert" /\ job'[j].pc = "delEvents"

pageviewEvents(w, startDate, endDate) ==
    {e \in eventsInRange(w, startDate, endDate) : e.eventType = "pageView"}

\* C16: the pageviews value an upsert stores for (website, day) is the number of
\* pageview-type events of the website with a timestamp within the day.
C16_PageviewsCountPageviews ==
    [][\A j \in Jobs : UpsertStep(j) =>
          \A r \in statsFor(Current(j), job[j].startDate)' :
              r.pageviews = Cardinality(pageviewEvents(Current(j), job[j].startDate,
                                                       job[j].endDate))]_vars

\* C17: whatever the interleaving of two runs, a stored rollup row is one a
\* run executing alone would have written.  A run alone reads every session
\* together with the event that created it, so its row never counts more
\* sessions than hits on URLs; a row that does was computed from raw data
\* another run had partly deleted.
C17_RowFromWholeData ==
    \A r \in websiteStats : r.sessions <= SumOver(DOMAIN r.urlData, r.urlData)

\* C18: within a run, rows of a website are deleted only by the deletion step
\* of that website's iteration, which is entered only from a completed upsert
\* and runs while the rollup row that iteration computed is stored.
C18_DeleteAfterUpsert ==
    [][\A j \in Jobs :
          /\ (job'[j].pc = "delEvents" /\ job[j].pc # "delEvents")
                => (UpsertStep(j) /\ computedRow(j) \in websiteStats')
          /\ (websiteEvent' # websiteEvent \/ session' # session) =>
                \/ websiteEvent \subseteq websiteEvent' /\ session \subseteq session'
                \/ /\ job[j].pc \in {"delEvents", "delSessions"}
                   /\ statsFor(Current(j), job[j].startDate) = {computedRow(j)}
                   /\ \A e \in websiteEvent \ websiteEvent' : e.websiteId = Current(j)
                   /\ \A x \in session \ session' : x.websiteId = Current(j)]_vars

\* C18 witness: the deletion step of an iteration has deleted the old events
\* of its website (their sessions are still there) and the rollup row of the
\* iteration is stored.
C18_Witness ==
    \E j \in Jobs :
        /\ job[j].pc = "delSessions"
        /\ statsFor(Current(j), job[j].startDate) = {computedRow(j)}
        /\ \E x \in SessionsOf(Current(j)) : x.createdAt < job[j].startDate
        /\ \A e \in EventsOf(Current(j)) : e.createdAt >= job[j].startDate

\* C10: every upsert, whether it creates the row or meets an existing one,
\* leaves for its (website, day) exactly the row built from the values this run
\* computed: on conflict each computed field is replaced, none is added to.
\* Hence a second run that computes the same values from unchanged raw data
\* leaves the stored rows as they were.
C10_UpsertReplaces ==
    [][\A j \in Jobs : UpsertStep(j) =>
          /\ statsFor(Current(j), job[j].startDate)' = {computedRow(j)}
          /\ (statsFor(Current(j), job[j].startDate) = {computedRow(j)}
                => websiteStats' = websiteStats)]_vars

\* C10 witness: a second run of the same (website, day) has met the row that
\* the first run wrote, computed the same values, counting at least one
\* pageview, and upserted.
C10_Witness ==
    \E j \in Jobs : /\ job[j].pc = "delEvents"
                     /\ job[j].rerun
                     /\ \E r \in statsFor(Current(j), job[j].startDate) : r.pageviews > 0
\* C21: acquisition is first come, first served: a step in which a caller takes
\* an idle connection is taken by a caller that was waiting at least as long as
\* every caller still waiting, never by one that has only just called.
C21_LongestWaiterFirst ==
    [][\A c \in Callers :
          (cpc[c] \in {"none", "waiting"} /\ cpc'[c] = "holding")
              => \A d \in Callers \ {c} :
                    cpc[d] = "waiting"
                        => (cpc[c] = "waiting" /\ waitStart[c] <= waitStart[d])]_vars
\* Whether a daily rollup row of the website starts within the days of the
\* requested range of the last query.
RollupRowsExist ==
    \E r \in websiteStats : /\ r.websiteId = query.websiteId
                            /\ r.period = "daily"
                            /\ r.startDate >= startOfDay(query.startDate)
                            /\ r.startDate <= endOfDay(query.endDate)

C23_AscendingNoEmptyBuckets ==
    query.path = "clickhouse" =>
        /\ \A i, k \in 1..Len(query.series) :
              i < k => query.series[i].x < query.series[k].x
        /\ \A i \in 1..Len(query.series) : query.series[i].y > 0
\* The manual count for the last query: the raw pageview events of the website
\* from the effective start date to the end date that fall on day d.
manualCount(d) ==
    Cardinality({e \in websiteEvent :
                    /\ e.websiteId = query.websiteId
                    /\ e.eventType = "pageView"
                    /\ e.createdAt >= parseFiltersStartDate(query.websiteId, query.startDate)
                    /\ e.createdAt <= query.endDate
                    /\ startOfDay(e.createdAt) = d})

\* C24: a query by day without dimensional filter whose range holds no rollup
\* row is answered by the direct query, and over raw data that is still whole
\* its count for every day equals the manual count of the raw pageview events
\* of that day (so the series is not empty when such events exist).
C24_FallbackEqualsManualCount ==
    (/\ query.path = "clickhouse"
     /\ query.unit = "day"
     /\ query.filters \cap EVENT_COLUMNS = {}
     /\ ~RollupRowsExist
     /\ RawIntact)
        => /\ query.source # "rollup"
           /\ \A d \in QueryDays : valueAt(query.series, d) = manualCount(d)
predicateForm(operator) ==
    IF operator = "equals" THEN "="
    ELSE IF operator = "notEquals" THEN "!="
    ELSE IF operator = "contains" THEN "positionCaseInsensitive > 0"
    ELSE "positionCaseInsensitive = 0"

\* The predicate the filter f of a known dimension stands for.
predicateOf(f) ==
    [column |-> FILTER_COLUMNS(f.name), test |-> predicateForm(f.operator),
     value |-> f.name]

\* C30: the filter text holds, for every filter on a known dimension with an
\* operator of the set, the predicate on its column in the form the operator
\* fixes; it holds no predicate for a filter on an unknown dimension; and every
\* predicate in it stems from a filter on a known dimension.
C30_PredicatesOnlyForKnownColumns ==
    translated.call = "parseFilters" =>
        LET fs == translated.filters
            out == translated.filterQuery
            known == {i \in 1..Len(fs) : FILTER_COLUMNS(fs[i].name) # ""}
        IN /\ \A i \in known :
                 fs[i].operator \in OPERATORS
                    => \E k \in 1..Len(out) : out[k] = predicateOf(fs[i])
           /\ \A i \in (1..Len(fs)) \ known :
                 \A k \in 1..Len(out) :
                    out[k].value = fs[i].name => out[k] = NotOwnDomain
           /\ \A k \in 1..Len(out) :
                 out[k].value # "" =>
                    \/ \E i \in known : /\ fs[i].operator \in OPERATORS
                                        /\ out[k] = predicateOf(fs[i])
                    \/ \E i \in known : /\ fs[i].name = "referrer"
                                        /\ out[k] = NotOwnDomain

\* C30 witness: a request carried a filter on an unknown dimension and a
\* `contains` filter on the url, and the filter text is the url predicate alone.
C30_Witness ==
    /\ translated.call = "parseFilters"
    /\ \E i, k \in 1..Len(translated.filters) :
          /\ translated.filters[i].name = "shoeSize"
          /\ translated.filters[k].name = "url"
          /\ translated.filters[k].operator = "contains"
    /\ translated.filterQuery =
          <<[column |-> "url_path", test |-> "positionCaseInsensitive > 0",
             value |-> "url"]>>
\* The event of the session stored last before a new one arrives.
previousEvent(s) ==
    CHOOSE p \in websiteEvent :
        /\ p.sessionId = s
        /\ \A q \in websiteEvent : q.sessionId = s => q.id <= p.id

DeletionStep(j) ==
    /\ job[j].pc \in {"delEvents", "delSessions"}
    /\ job'[j] # job[j]

\* C27: a deletion step of a website's iteration removes only raw events and
\* sessions of that website created strictly before the start of the target
\* day, adds nothing, and leaves the rollup rows as they are; when it
\* completes, no such event (then no such session) is left.
C27_DeletionFrame ==
    [][\A j \in Jobs : DeletionStep(j) =>
          /\ websiteEvent' \subseteq websiteEvent
          /\ session' \subseteq session
          /\ \A e \in websiteEvent \ websiteEvent' :
                e.websiteId = Current(j) /\ e.createdAt < job[j].startDate
          /\ \A x \in session \ session' :
                x.websiteId = Current(j) /\ x.createdAt < job[j].startDate
          /\ websiteStats' = websiteStats
          /\ (job[j].pc = "delEvents" /\ job'[j].pc = "delSessions") =>
                \A e \in websiteEvent' :
                    ~(e.websiteId = Current(j) /\ e.createdAt < job[j].startDate)]_vars

\* C27 witness: the deletion of an iteration has removed an event while an
\* equally old event of another website is still stored.
C27_Witness ==
    \E j \in Jobs :
        /\ job[j].pc = "delSessions"
        /\ Cardinality(websiteEvent) < nextEventId
        /\ \E e \in websiteEvent : /\ e.websiteId # Current(j)
                                   /\ e.createdAt < job[j].startDate
\* The spellings of a device class that differ in case only.
Spellings(d) ==
    IF d = "desktop" THEN {"desktop", "Desktop", "DESKTOP"}
    ELSE IF d = "mobile" THEN {"mobile", "Mobile", "MOBILE"}
    ELSE {"tablet", "Tablet", "TABLET"}

\* The sessions of website w created within the day [startDate, endDate).
daySessions(w, startDate, endDate) ==
    {s \in session : s.websiteId = w /\ s.createdAt >= startDate
                                     /\ s.createdAt < endDate}

\* C28: the row an upsert stores for (website, day) gives as desktopViews,
\* mobileViews and tabletViews the number of the day's sessions whose device is,
\* whatever its case, desktop, mobile and tablet; a session without device is
\* in none of the three, and their sum does not exceed sessions.
C28_DeviceCounts ==
    [][\A j \in Jobs : UpsertStep(j) =>
          \A r \in statsFor(Current(j), job[j].startDate)' :
              LET S == daySessions(Current(j), job[j].startDate, job[j].endDate)
                  n(d) == Cardinality({s \in S : s.device \in Spellings(d)})
              IN /\ r.desktopViews = n("desktop")
                 /\ r.mobileViews = n("mobile")
                 /\ r.tabletViews = n("tablet")
                 /\ r.desktopViews + r.mobileViews + r.tabletViews <= r.sessions]_vars

\* C28 witness: an upsert has stored, for a day with a session on a `Mobile`
\* device and a session without device, a row of two sessions with
\* mobileViews = 1 and no desktop or tablet views.
C28_Witness ==
    \E j \in Jobs :
        /\ job[j].pc = "delEvents"
        /\ \E s1, s2 \in daySessions(Current(j), job[j].startDate, job[j].endDate) :
              s1.device = "Mobile" /\ s2.device = ""
        /\ \E r \in statsFor(Current(j), job[j].startDate) :
              /\ r.sessions = 2
              /\ r.mobileViews = 1
              /\ r.desktopViews = 0
              /\ r.tabletViews = 0
C31_ReferrerExcludesOwnDomain ==
    translated.call = "parseFilters" =>
        LET fs == translated.filters
            out == translated.filterQuery
            hasReferrer == \E i \in 1..Len(fs) :
                              /\ fs[i].name = "referrer"
                              /\ FILTER_COLUMNS(fs[i].name) # ""
        IN /\ hasReferrer =>
                 /\ \E k \in 1..Len(out) : out[k] = NotOwnDomain
                 /\ "websiteDomain" \in DOMAIN translated.params
                 /\ translated.params["websiteDomain"]
                        = websiteDomain(translated.websiteId)
           /\ ~hasReferrer => \A k \in 1..Len(out) : out[k] # NotOwnDomain

\* C31 witness: a request for w1 carried a referrer filter, and the filter text
\* ends with the own-domain exclusion while the parameters name w1's domain.
C31_Witness ==
    /\ translated.call = "parseFilters"
    /\ translated.websiteId = "w1"
    /\ \E i \in 1..Len(translated.filters) :
          /\ translated.filters[i].name = "referrer"
          /\ translated.filters[i].operator = "equals"
    /\ \E k \in 2..Len(translated.filterQuery) :
          /\ translated.filterQuery[k] = NotOwnDomain
          /\ translated.filterQuery[k - 1]
                = [column |-> "referrer_domain", test |-> "=", value |-> "referrer"]
    /\ translated.params["websiteDomain"] = "one.example"

\* C36: in the parameters every parseFilters call returns, websiteId is the
\* websiteId argument, websiteDomain is that website's domain and startDate is
\* the later of the requested start date and the reset, whatever filters
\* (among them filters named websiteId or websiteDomain) the caller supplied.
C36_ParamsScopedToWebsite ==
    [][(translated' # translated /\ translated'.call = "parseFilters") =>
          LET w == translated'.websiteId
              requested == translated'.startDate
              p == translated'.params
          IN /\ p["websiteId"] = w
             /\ p["websiteDomain"] = websiteDomain(w)
             /\ p["startDate"] = IF \E t \in website[w].resetAt : t > requested
                                 THEN CHOOSE t \in website[w].resetAt : t > requested
                                 ELSE requested]_vars

\* C36 witness: a request for w1 carried filters named websiteId and
\* websiteDomain with foreign values, and the parameters still name w1 and its
\* domain.
C36_Witness ==
    /\ translated.call = "parseFilters"
    /\ translated.websiteId = "w1"
    /\ \E i, k \in 1..Len(translated.filters) :
          /\ translated.filters[i].name = "websiteId"
          /\ translated.filters[i].value = "w2"
          /\ translated.filters[k].name = "websiteDomain"
    /\ translated.params["websiteId"] = "w1"
    /\ translated.params["websiteDomain"] = "one.example"

\* C37: every line of the filter text carries a non-empty predicate, and a
\* filter on a known column with an operator outside the four adds no line.
C37_NoEmptyPredicate ==
    translated.call = "parseFilters" =>
        LET fs == translated.filters
            out == translated.filterQuery
            lines == {i \in 1..Len(fs) : /\ FILTER_COLUMNS(fs[i].name) # ""
                                         /\ fs[i].operator \in OPERATORS}
            referrers == {i \in 1..Len(fs) : /\ FILTER_COLUMNS(fs[i].name) # ""
                                             /\ fs[i].name = "referrer"}
        IN /\ \A k \in 1..Len(out) : out[k] # NoPredicate
           /\ Len(out) = Cardinality(lines) + Cardinality(referrers)
\* C38: when a run of the job has ended normally, every raw event that remains
\* still has its session row.
C38_EventsKeepTheirSession ==
    \A j \in Jobs :
        (job[j].pc = "exited" /\ job[j].exitCode = 0)
            => \A e \in websiteEvent : \E s \in session : s.id = e.sessionId
\* C32: whenever acquire() returns a connection to its caller, that connection
\* has not been closed, with the reaper and end() running at any moment.
C32_AcquireReturnsOpenClient ==
    [][\A c \in Callers :
          (cpc[c] # "holding" /\ cpc'[c] = "holding") => ~closed'[cref'[c]]]_vars

\* C33: an acquire() is rejected by its timeout only while the pool holds max
\* connections: a waiter is not failed while there is room to create one.
C33_NoTimeoutBelowMax ==
    [][\A c \in Callers :
          (cpc[c] = "waiting" /\ cpc'[c] = "timedOut")
              => Len(clients) >= config.max]_vars
C34_CleanupClosesThenDisconnects ==
    (process.pc = "exited" /\ process.cause = "signal") =>
        /\ process.enabled => \A id \in Range(clients) : closed[id]
        /\ process.prisma = "disconnected"

\* C39: without a ClickHouse URL the load of the module creates no connection,
\* starts no reaper and raises no error, and connect() returns null.
C39_DisabledLoadsQuietly ==
    ~process.enabled =>
        /\ clients = <<>>
        /\ \A id \in ClientIds : ~isIdle[id] /\ ~closed[id]
        /\ ~reaperStarted
        /\ process.rejection = "none"
        /\ process.connectResult \in {"none", "null"}

====
